---- MODULE Spec2Model ----
(***************************************************************************)
(* Winnipeg Transit extract/load pipeline: the dataset stager              *)
(* (save_df_to_csv, get_today_extracted_data), the fan-out collectors, the *)
(* JSON flatteners and the Airflow task chain of dags/ExtractLoad.py.      *)
(*                                                                         *)
(* Python values are tagged records: None, str, int, dict, list,           *)
(* Timestamp and DataFrame.  Time is the wall clock at one-second          *)
(* resolution (the resolution of the snapshot file names); pauses are      *)
(* counted in tenths of a second.                                          *)
(***************************************************************************)
EXTENDS Integers, Sequences, FiniteSets, TLC

VARIABLES
    now,        \* wall clock: [day, sec]
    fs,         \* staging tree: [dirs: set of directories, files: <<dir, name>> -> csv]
    calls,      \* stager calls made so far, oldest first
    cin,        \* collector run: [which, ids, responses], responses[i] answers request i
    cout,       \* its outcome: [raised, df, events]; None before the run
    fin,        \* flattener input: [shape, payload]
    fout,       \* its result: a DataFrame or a raised exception; None before
    task,       \* Airflow task instances of the DAG run: task_id -> [state, tries, at]
    xcom,       \* XCom of the DAG run: <<task_id, key>> -> value
    ran,        \* task_id -> what its latest try did; None before its first try
    warehouse   \* BigQuery: table -> the frame loaded last

stagerVars == <<now, fs, calls>>
collectVars == <<cin, cout>>
flattenVars == <<fin, fout>>
pipeVars == <<task, xcom, ran, warehouse>>
vars == <<now, fs, calls, cin, cout, fin, fout, task, xcom, ran, warehouse>>

(***************************************************************************)
(* Bounds                                                                  *)
(***************************************************************************)
MaxDay == 2
MaxSec == 1
MaxCalls == 2
MaxRoutes == 2
MaxVariants == 2
MaxSchedules == 2
MaxIds == 3

(***************************************************************************)
(* Python values                                                           *)
(***************************************************************************)
None == [t |-> "None"]
Str(s) == [t |-> "str", v |-> s]
Num(n) == [t |-> "int", v |-> n]
Ts(c) == [t |-> "Timestamp", day |-> c.day, sec |-> c.sec]
Dict(f) == [t |-> "dict", f |-> f]
List(s) == [t |-> "list", items |-> s]
DataFrame(c, r) == [t |-> "DataFrame", cols |-> c, rows |-> r]

Clocks == [day : 1..MaxDay, sec : 0..MaxSec]

Range(s) == {s[i] : i \in DOMAIN s}

(***************************************************************************)
(* strftime of the wall clock.  Day 1 is the DAG's start date 2025-02-15;  *)
(* the daily run is scheduled at 12:00.                                    *)
(***************************************************************************)
TwoDigits(n) == IF n < 10 THEN "0" \o ToString(n) ELSE ToString(n)

strftime(c, fmt) ==
    CASE fmt = "%Y" -> "2025"
      [] fmt = "%m" -> "02"
      [] fmt = "%d" -> TwoDigits(14 + c.day)
      [] fmt = "%Y%m%d_%H%M%S" ->
            "202502" \o TwoDigits(14 + c.day) \o "_1200" \o TwoDigits(c.sec)
      [] fmt = "%Y-%m-%d %H:%M:%S" ->
            "2025-02-" \o TwoDigits(14 + c.day) \o " 12:00:" \o TwoDigits(c.sec)

path_join(parts) ==
    LET RECURSIVE J(_)
        J(i) == IF i = 1 THEN parts[1] ELSE J(i - 1) \o "/" \o parts[i]
    IN J(Len(parts))

(***************************************************************************)
(* CSV text.  to_csv(index=False) writes the header and one line per row;  *)
(* read_csv infers each cell's type from its text.                         *)
(***************************************************************************)
Numbers == {101, 205}

FormatCell(v) ==
    CASE v.t = "None" -> ""
      [] v.t = "int" -> ToString(v.v)
      [] v.t = "str" -> v.v
      [] v.t = "Timestamp" -> strftime(v, "%Y-%m-%d %H:%M:%S")

ParseCell(s) ==
    IF s = "" THEN None
    ELSE IF \E n \in Numbers : ToString(n) = s
         THEN Num(CHOOSE n \in Numbers : ToString(n) = s)
         ELSE Str(s)

to_datetime(v) ==
    IF v.t = "str" /\ \E c \in Clocks : strftime(c, "%Y-%m-%d %H:%M:%S") = v.v
    THEN Ts(CHOOSE c \in Clocks : strftime(c, "%Y-%m-%d %H:%M:%S") = v.v)
    ELSE None

to_csv(df) ==
    [header |-> df.cols,
     lines |-> [i \in DOMAIN df.rows |->
                    [c \in df.cols |-> FormatCell(df.rows[i][c])]]]

read_csv(csv) ==
    DataFrame(csv.header,
              [i \in DOMAIN csv.lines |->
                    [c \in csv.header |-> ParseCell(csv.lines[i][c])]])

(***************************************************************************)
(* Staging tree                                                            *)
(***************************************************************************)
BaseDir == "/usr/local/airflow/extracted_data"

EmptyFs == [dirs |-> {}, files |-> <<>>]

makedirs(filesystem, dir) == [filesystem EXCEPT !.dirs = @ \cup {dir}]

write_file(filesystem, dir, name, content) ==
    [filesystem EXCEPT !.files =
        [p \in DOMAIN filesystem.files \cup {<<dir, name>>} |->
            IF p = <<dir, name>> THEN content ELSE filesystem.files[p]]]

listdir(filesystem, dir) == {p[2] : p \in {q \in DOMAIN filesystem.files : q[1] = dir}}

FileName(stem, ext) == [stem |-> stem, ext |-> ext]

endswith(name, suffix) == name.ext = suffix

FilePath(dir, name) == path_join(<<dir, name.stem \o name.ext>>)

(***************************************************************************)
(* The DAG: task ids in the order of the dependency chain, and the state   *)
(* of a DAG run in which no task has been tried yet                        *)
(***************************************************************************)
TaskOrder ==
    << "api_data_extraction_task", "push_routes_to_big_query_task",
       "process_destinations_task", "push_destinations_to_big_query_task",
       "process_stops_task", "push_stops_to_big_query_task",
       "process_stop_schedules_task", "push_stop_schedules_to_big_query_task",
       "process_stop_features_task", "push_stop_features_to_big_query_task" >>

TaskIds == Range(TaskOrder)

Retries == 1

NoRun ==
    /\ task = [id \in TaskIds |-> [state |-> "none", tries |-> 0]]
    /\ xcom = [k \in {} |-> None]
    /\ ran = [id \in TaskIds |-> None]
    /\ warehouse = [k \in {} |-> None]

\* the folder and file prefix being the same for every dataset
raw_dataset_name_shared(dataset_name) == "Raw_"

\* dataset_name = f"Raw_{dataset_name}"
raw_dataset_name(dataset_name) == "Raw_" \o dataset_name

\* save_df_to_csv naming the snapshot after the dataset only
save_df_to_csv_untimed(df, dataset_name, base_dir, clock, filesystem, fault) ==
    LET raw_name == raw_dataset_name(dataset_name)
        dataset_dir == path_join(<<base_dir, strftime(clock, "%Y"),
                                   strftime(clock, "%m"), strftime(clock, "%d"), raw_name>>)
        file_name == FileName(raw_name, ".csv")
        made == makedirs(filesystem, dataset_dir)
    IN  IF fault = "makedirs"
        THEN [ret |-> None, fs |-> filesystem, dir |-> dataset_dir, file |-> file_name]
        ELSE IF fault = "to_csv"
        THEN [ret |-> None, fs |-> made, dir |-> dataset_dir, file |-> file_name]
        ELSE [ret |-> Str(FilePath(dataset_dir, file_name)),
              fs |-> write_file(made, dataset_dir, file_name, to_csv(df)),
              dir |-> dataset_dir, file |-> file_name]

(***************************************************************************)
(* save_df_to_csv.  fault names the statement that raises, if any; every   *)
(* exception is caught and turned into a None return.                      *)
(***************************************************************************)
WriteFaults == {"none", "makedirs", "to_csv"}

save_df_to_csv(df, dataset_name, base_dir, clock, filesystem, fault) ==
    LET year == strftime(clock, "%Y")
        month == strftime(clock, "%m")
        day == strftime(clock, "%d")
        raw_name == raw_dataset_name(dataset_name)
        dataset_dir == path_join(<<base_dir, year, month, day, raw_name>>)
        timestamp_str == strftime(clock, "%Y%m%d_%H%M%S")
        file_name == FileName(raw_name \o "_" \o timestamp_str, ".csv")
        made == makedirs(filesystem, dataset_dir)
    IN  IF fault = "makedirs"
        THEN [ret |-> None, fs |-> filesystem, dir |-> dataset_dir, file |-> file_name]
        ELSE IF fault = "to_csv"
        THEN [ret |-> None, fs |-> made, dir |-> dataset_dir, file |-> file_name]
        ELSE [ret |-> Str(FilePath(dataset_dir, file_name)),
              fs |-> write_file(made, dataset_dir, file_name, to_csv(df)),
              dir |-> dataset_dir, file |-> file_name]

(***************************************************************************)
(* get_today_extracted_data.  listing is the order in which os.listdir     *)
(* returns the entries of the folder (any order).                          *)
(***************************************************************************)
Orderings(S) == {s \in [1..Cardinality(S) -> S] : Range(s) = S}

parse_timestamp_fetched(df) ==
    IF "timestamp_fetched" \in df.cols
    THEN DataFrame(df.cols,
            [i \in DOMAIN df.rows |->
                [df.rows[i] EXCEPT !["timestamp_fetched"] = to_datetime(@)]])
    ELSE df

\* get_today_extracted_data answering an empty folder with an empty table
get_today_extracted_data_empty(dataset_name, base_dir, clock, filesystem, listing) ==
    LET folder_path == path_join(<<base_dir, strftime(clock, "%Y"),
                                   strftime(clock, "%m"), strftime(clock, "%d"),
                                   dataset_name>>)
        IsCsv(f) == endswith(f, ".csv")
        csv_files == SelectSeq(listing, IsCsv)
    IN  IF folder_path \notin filesystem.dirs
        THEN [ret |-> None, folder |-> folder_path, file |-> None]
        ELSE IF csv_files = <<>>
        THEN [ret |-> DataFrame({}, <<>>), folder |-> folder_path, file |-> None]
        ELSE [ret |-> parse_timestamp_fetched(
                        read_csv(filesystem.files[<<folder_path, csv_files[1]>>])),
              folder |-> folder_path, file |-> csv_files[1]]

get_today_extracted_data(dataset_name, base_dir, clock, filesystem, listing) ==
    LET year == strftime(clock, "%Y")
        month == strftime(clock, "%m")
        day == strftime(clock, "%d")
        folder_path == path_join(<<base_dir, year, month, day, dataset_name>>)
        IsCsv(f) == endswith(f, ".csv")
        csv_files == SelectSeq(listing, IsCsv)
    IN  IF folder_path \notin filesystem.dirs
        THEN [ret |-> None, folder |-> folder_path, file |-> None]
        ELSE IF csv_files = <<>>
        THEN [ret |-> None, folder |-> folder_path, file |-> None]
        ELSE [ret |-> parse_timestamp_fetched(
                        read_csv(filesystem.files[<<folder_path, csv_files[1]>>])),
              folder |-> folder_path, file |-> csv_files[1]]

today_folder(dataset_name, base_dir, clock) ==
    path_join(<<base_dir, strftime(clock, "%Y"), strftime(clock, "%m"),
                strftime(clock, "%d"), dataset_name>>)

(***************************************************************************)
(* Stager calls made directly, at any time of any day                      *)
(***************************************************************************)
StagedNames == {"routes", "stops"}

RetrieveNames == StagedNames \cup {"Raw_" \o d : d \in StagedNames}

StagerTables(clock) ==
    { DataFrame({"timestamp_fetched"}, <<>>),
      DataFrame({"stop_number", "stop_name", "timestamp_fetched"},
                << [stop_number |-> Num(101), stop_name |-> Str("Main"),
                    timestamp_fetched |-> Ts(clock)],
                   [stop_number |-> Num(205), stop_name |-> None,
                    timestamp_fetched |-> Ts(clock)] >>) }

InitStager ==
    /\ now = [day |-> 1, sec |-> 0]
    /\ fs = EmptyFs
    /\ calls = <<>>
    /\ cin = None
    /\ cout = None
    /\ fin = None
    /\ fout = None
    /\ NoRun

StageCall ==
    /\ Len(calls) < MaxCalls
    /\ \E d \in StagedNames, df \in StagerTables(now), fault \in WriteFaults :
          LET r == save_df_to_csv(df, d, BaseDir, now, fs, fault)
          IN  /\ fs' = r.fs
              /\ calls' = Append(calls,
                    [op |-> "save", dataset_name |-> d, df |-> df, at |-> now,
                     ret |-> r.ret, dir |-> r.dir, file |-> r.file])
    /\ UNCHANGED <<now, collectVars, flattenVars, pipeVars>>

RetrieveCall ==
    /\ Len(calls) < MaxCalls
    /\ \E d \in RetrieveNames :
          \E listing \in Orderings(listdir(fs, today_folder(d, BaseDir, now))) :
              LET r == get_today_extracted_data(d, BaseDir, now, fs, listing)
              IN  calls' = Append(calls,
                    [op |-> "get", dataset_name |-> d, at |-> now,
                     ret |-> r.ret, dir |-> r.folder, file |-> r.file,
                     had_dir |-> r.folder \in fs.dirs,
                     csv_count |-> Cardinality(listdir(fs, r.folder))])
    /\ UNCHANGED <<now, fs, collectVars, flattenVars, pipeVars>>

TickSecond ==
    /\ now.sec < MaxSec
    /\ now' = [now EXCEPT !.sec = @ + 1]
    /\ UNCHANGED <<fs, calls, collectVars, flattenVars, pipeVars>>

TickDay ==
    /\ now.day < MaxDay
    /\ now' = [day |-> now.day + 1, sec |-> 0]
    /\ UNCHANGED <<fs, calls, collectVars, flattenVars, pipeVars>>

NextStager == StageCall \/ RetrieveCall \/ TickSecond \/ TickDay

SpecStager == InitStager /\ [][NextStager]_vars

(***************************************************************************)
(* Retrieval from a partition that was staged once or twice today, the     *)
(* second time one clock second after the first                            *)
(***************************************************************************)
StagedOnce(d, df) ==
    save_df_to_csv(df, d, BaseDir, [day |-> 1, sec |-> 0], EmptyFs, "none").fs

StagedTwice(d, df1, df2) ==
    save_df_to_csv(df2, d, BaseDir, [day |-> 1, sec |-> 1],
                   StagedOnce(d, df1), "none").fs

InitRetrieve ==
    /\ now = [day |-> 1, sec |-> 1]
    /\ \E d \in StagedNames :
          \E df1 \in StagerTables([day |-> 1, sec |-> 0]),
             df2 \in StagerTables([day |-> 1, sec |-> 1]) :
                fs \in {StagedOnce(d, df1), StagedTwice(d, df1, df2)}
    /\ calls = <<>>
    /\ cin = None
    /\ cout = None
    /\ fin = None
    /\ fout = None
    /\ NoRun

SpecRetrieve == InitRetrieve /\ [][RetrieveCall]_vars

(***************************************************************************)
(* Python dict access, truthiness and DataFrame construction.  An          *)
(* exception raised while evaluating an expression is the value Raise(e);  *)
(* it propagates through every expression built on it.                     *)
(***************************************************************************)
Raise(e) == [t |-> "raise", exc |-> e]

EmptyDict == Dict([k \in {} |-> None])

EmptyList == List(<<>>)

get(d, k, default) ==
    IF d.t = "raise" THEN d
    ELSE IF d.t # "dict" THEN Raise("AttributeError")
    ELSE IF k \in DOMAIN d.f THEN d.f[k]
    ELSE default

truthy(v) ==
    CASE v.t = "None" -> FALSE
      [] v.t = "dict" -> DOMAIN v.f # {}
      [] v.t = "list" -> v.items # <<>>
      [] OTHER -> TRUE

RaiseRow(e) == [raised |-> Raise(e)]

RowRaises(row) == \E c \in DOMAIN row : row[c].t = "raise"

AnyRaises(rows) == \E i \in DOMAIN rows : RowRaises(rows[i])

Concat(seqs) ==
    LET RECURSIVE C(_)
        C(i) == IF i = 0 THEN <<>> ELSE C(i - 1) \o seqs[i]
    IN C(Len(seqs))

\* pd.DataFrame(list of dicts): the columns are the keys of the records
frame_from_records(records) ==
    DataFrame(UNION {DOMAIN records[i] : i \in DOMAIN records}, records)

\* df[col] = scalar
set_column(df, col, value) ==
    DataFrame(df.cols \cup {col},
              [i \in DOMAIN df.rows |->
                  [c \in DOMAIN df.rows[i] \cup {col} |->
                      IF c = col THEN value ELSE df.rows[i][c]]])

(***************************************************************************)
(* Upstream HTTP API: what requests.get does for one request               *)
(***************************************************************************)
HttpResponse(status, body) == [kind |-> "response", status_code |-> status, json |-> body]

RequestException == [kind |-> "RequestException"]

SleepTenths == 6

Request(id) == [e |-> "request", id |-> id]

Sleep == [e |-> "sleep", tenths |-> SleepTenths]

Outcome(raised, df, events) == [raised |-> raised, df |-> df, events |-> events]

\* get_variant_destinations letting a transport failure escape
get_variant_destinations_uncaught(response) ==
    IF response.kind = "RequestException" THEN Raise("RequestException")
    ELSE IF response.status_code = 200 THEN response.json
    ELSE None

get_variant_destinations(response) ==
    IF response.kind = "RequestException" THEN None
    ELSE IF response.status_code = 200 THEN response.json
    ELSE None

make_api_call_for_bus_variants(response) ==
    IF response.kind = "RequestException" THEN None
    ELSE IF response.status_code = 200 THEN response.json
    ELSE None

make_api_call_for_bus_stop_schedules(response) ==
    IF response.kind = "RequestException" THEN None
    ELSE IF response.status_code = 200 THEN response.json
    ELSE None

(***************************************************************************)
(* fetch_destinations_for_variants                                         *)
(***************************************************************************)
destination_rows(variant_key, destinations_data) ==
    LET destinations == get(destinations_data, "destinations", EmptyList)
    IN  IF destinations.t # "list" THEN << RaiseRow("TypeError") >>
        ELSE [k \in DOMAIN destinations.items |->
                [variant_key |-> variant_key,
                 destination_name |-> get(destinations.items[k], "name", None),
                 destination_id |-> get(destinations.items[k], "key", None)]]

\* fetch_destinations_for_variants pausing only after a request that gave data
fetch_destinations_for_variants_nopause(variant_list, responses, clock) ==
    LET RECURSIVE Loop(_, _, _)
        Loop(i, all_destinations, events) ==
            IF i > Len(variant_list)
            THEN Outcome(FALSE,
                         set_column(frame_from_records(all_destinations),
                                    "timestamp_fetched", Ts(clock)),
                         events)
            ELSE LET variant_key == variant_list[i]
                     destinations_data == get_variant_destinations(responses[i])
                     requested == Append(events, Request(variant_key))
                     rows == IF truthy(destinations_data)
                             THEN destination_rows(variant_key, destinations_data)
                             ELSE <<>>
                 IN  IF destinations_data.t = "raise" \/ AnyRaises(rows)
                     THEN Outcome(TRUE, None, requested)
                     ELSE Loop(i + 1, all_destinations \o rows,
                               IF truthy(destinations_data)
                               THEN Append(requested, Sleep) ELSE requested)
    IN  Loop(1, <<>>, <<>>)

fetch_destinations_for_variants(variant_list, responses, clock) ==
    LET RECURSIVE Loop(_, _, _)
        Loop(i, all_destinations, events) ==
            IF i > Len(variant_list)
            THEN Outcome(FALSE,
                         set_column(frame_from_records(all_destinations),
                                    "timestamp_fetched", Ts(clock)),
                         events)
            ELSE LET variant_key == variant_list[i]
                     destinations_data == get_variant_destinations(responses[i])
                     requested == Append(events, Request(variant_key))
                     rows == IF truthy(destinations_data)
                             THEN destination_rows(variant_key, destinations_data)
                             ELSE <<>>
                 IN  IF destinations_data.t = "raise" \/ AnyRaises(rows)
                     THEN Outcome(TRUE, None, requested)
                     ELSE Loop(i + 1, all_destinations \o rows,
                               Append(requested, Sleep))
    IN  Loop(1, <<>>, <<>>)

(***************************************************************************)
(* fetch_data_for_variants (stops)                                         *)
(***************************************************************************)
stop_data(variant_key, stop) ==
    [variant_key |-> variant_key,
     stop_id |-> get(stop, "key", None),
     stop_name |-> get(stop, "name", None),
     stop_number |-> get(stop, "number", None),
     direction |-> get(stop, "direction", None),
     side |-> get(stop, "side", None),
     street_key |-> get(get(stop, "street", EmptyDict), "key", None),
     street_name |-> get(get(stop, "street", EmptyDict), "name", None),
     cross_street_key |-> get(get(stop, "cross-street", EmptyDict), "key", None),
     cross_street_name |-> get(get(stop, "cross-street", EmptyDict), "name", None),
     cross_street_leg |-> get(get(stop, "cross-street", EmptyDict), "leg", None),
     centre_utm_zone |->
        get(get(get(stop, "centre", EmptyDict), "utm", EmptyDict), "zone", None),
     centre_utm_x |->
        get(get(get(stop, "centre", EmptyDict), "utm", EmptyDict), "x", None),
     centre_utm_y |->
        get(get(get(stop, "centre", EmptyDict), "utm", EmptyDict), "y", None),
     latitude |->
        get(get(get(stop, "centre", EmptyDict), "geographic", EmptyDict), "latitude", None),
     longitude |->
        get(get(get(stop, "centre", EmptyDict), "geographic", EmptyDict), "longitude", None)]

stop_rows(variant_key, api_data_output, dataset_name) ==
    LET stops == get(api_data_output, dataset_name, EmptyList)
    IN  IF stops.t # "list" THEN << RaiseRow("TypeError") >>
        ELSE [k \in DOMAIN stops.items |-> stop_data(variant_key, stops.items[k])]

fetch_data_for_variants(variant_list, responses, clock, dataset_name) ==
    LET RECURSIVE Loop(_, _, _)
        Loop(i, all_data_list, events) ==
            IF i > Len(variant_list)
            THEN Outcome(FALSE,
                         set_column(frame_from_records(all_data_list),
                                    "timestamp_fetched", Ts(clock)),
                         events)
            ELSE LET variant_key == variant_list[i]
                     api_data_output == make_api_call_for_bus_variants(responses[i])
                     requested == Append(events, Request(variant_key))
                     rows == IF truthy(api_data_output)
                             THEN stop_rows(variant_key, api_data_output, dataset_name)
                             ELSE <<>>
                 IN  IF api_data_output.t = "raise" \/ AnyRaises(rows)
                     THEN Outcome(TRUE, None, requested)
                     ELSE Loop(i + 1, all_data_list \o rows, Append(requested, Sleep))
    IN  Loop(1, <<>>, <<>>)

(***************************************************************************)
(* flatten_schedule_data and fetch_stop_schedules_for_busstops             *)
(***************************************************************************)
\* stop_info reading the route fields from the scheduled-stop instead of its route-schedule
stop_info_leaf_route(stop_number, stop_name, route_schedule, stop) ==
    [stop_number |-> stop_number,
     stop_name |-> stop_name,
     route_key |-> get(get(stop, "route", EmptyDict), "key", None),
     route_name |-> get(get(stop, "route", EmptyDict), "name", None),
     route_number |-> get(get(stop, "route", EmptyDict), "number", None),
     scheduled_stop_key |-> get(stop, "key", None),
     cancelled |-> get(stop, "cancelled", None),
     arrival_scheduled |->
        get(get(get(stop, "times", EmptyDict), "arrival", EmptyDict), "scheduled", None),
     arrival_estimated |->
        get(get(get(stop, "times", EmptyDict), "arrival", EmptyDict), "estimated", None),
     departure_scheduled |->
        get(get(get(stop, "times", EmptyDict), "departure", EmptyDict), "scheduled", None),
     departure_estimated |->
        get(get(get(stop, "times", EmptyDict), "departure", EmptyDict), "estimated", None),
     variant_key |-> get(get(stop, "variant", EmptyDict), "key", None),
     variant_name |-> get(get(stop, "variant", EmptyDict), "name", None),
     bus_key |-> get(get(stop, "bus", EmptyDict), "key", None),
     bus_bike_rack |-> get(get(stop, "bus", EmptyDict), "bike-rack", None),
     bus_wifi |-> get(get(stop, "bus", EmptyDict), "wifi", None)]

stop_info(stop_number, stop_name, route_schedule, stop) ==
    [stop_number |-> stop_number,
     stop_name |-> stop_name,
     route_key |-> get(get(route_schedule, "route", EmptyDict), "key", None),
     route_name |-> get(get(route_schedule, "route", EmptyDict), "name", None),
     route_number |-> get(get(route_schedule, "route", EmptyDict), "number", None),
     scheduled_stop_key |-> get(stop, "key", None),
     cancelled |-> get(stop, "cancelled", None),
     arrival_scheduled |->
        get(get(get(stop, "times", EmptyDict), "arrival", EmptyDict), "scheduled", None),
     arrival_estimated |->
        get(get(get(stop, "times", EmptyDict), "arrival", EmptyDict), "estimated", None),
     departure_scheduled |->
        get(get(get(stop, "times", EmptyDict), "departure", EmptyDict), "scheduled", None),
     departure_estimated |->
        get(get(get(stop, "times", EmptyDict), "departure", EmptyDict), "estimated", None),
     variant_key |-> get(get(stop, "variant", EmptyDict), "key", None),
     variant_name |-> get(get(stop, "variant", EmptyDict), "name", None),
     bus_key |-> get(get(stop, "bus", EmptyDict), "key", None),
     bus_bike_rack |-> get(get(stop, "bus", EmptyDict), "bike-rack", None),
     bus_wifi |-> get(get(stop, "bus", EmptyDict), "wifi", None)]

route_schedule_rows(stop_number, stop_name, route_schedule) ==
    LET scheduled_stops == get(route_schedule, "scheduled-stops", EmptyList)
    IN  IF scheduled_stops.t # "list" THEN << RaiseRow("TypeError") >>
        ELSE [k \in DOMAIN scheduled_stops.items |->
                stop_info(stop_number, stop_name, route_schedule,
                          scheduled_stops.items[k])]

record_rows(record) ==
    LET stop_schedule == get(record, "stop-schedule", EmptyDict)
        stop_number == get(get(stop_schedule, "stop", EmptyDict), "number", None)
        stop_name == get(get(stop_schedule, "stop", EmptyDict), "name", None)
        route_schedules == get(stop_schedule, "route-schedules", EmptyList)
    IN  IF stop_number.t = "raise" \/ stop_name.t = "raise"
        THEN << RaiseRow("AttributeError") >>
        ELSE IF route_schedules.t # "list" THEN << RaiseRow("TypeError") >>
        ELSE Concat([r \in DOMAIN route_schedules.items |->
                        route_schedule_rows(stop_number, stop_name,
                                            route_schedules.items[r])])

flatten_schedule_data(schedules, clock) ==
    LET flattened_data == Concat([i \in DOMAIN schedules |-> record_rows(schedules[i])])
    IN  IF AnyRaises(flattened_data) THEN Raise("Exception")
        ELSE set_column(frame_from_records(flattened_data), "timestamp_fetched",
                        Str(strftime(clock, "%Y-%m-%d %H:%M:%S")))

fetch_stop_schedules_for_busstops(stops_list, responses, clock) ==
    LET RECURSIVE Loop(_, _, _)
        Loop(i, all_schedule_data, events) ==
            IF i > Len(stops_list)
            THEN LET df_schedules == flatten_schedule_data(all_schedule_data, clock)
                 IN  IF df_schedules.t = "raise"
                     THEN Outcome(TRUE, None, events)
                     ELSE Outcome(FALSE, df_schedules, events)
            ELSE LET stop_number == stops_list[i]
                     api_data_output == make_api_call_for_bus_stop_schedules(responses[i])
                     requested == Append(events, Request(stop_number))
                 IN  IF api_data_output.t = "raise"
                     THEN Outcome(TRUE, None, requested)
                     ELSE Loop(i + 1,
                               IF truthy(api_data_output)
                               THEN Append(all_schedule_data, api_data_output)
                               ELSE all_schedule_data,
                               Append(requested, Sleep))
    IN  Loop(1, <<>>, <<>>)

(***************************************************************************)
(* Collector runs over every id list and every assignment of upstream      *)
(* answers to the requests                                                 *)
(***************************************************************************)
VariantKeys == {Str("1-0-A"), Str("1-1-B")}

StopNumbers == {Num(n) : n \in Numbers}

SeqsUpTo(S, n) == UNION {[1..k -> S] : k \in 0..n}

DestinationResponses ==
    { RequestException,
      HttpResponse(404, None),
      HttpResponse(200, EmptyDict),
      HttpResponse(200, Dict([message |-> Str("no destinations")])),
      HttpResponse(200, Dict([destinations |-> EmptyList])),
      HttpResponse(200, Dict([destinations |-> List(<<
          Dict([key |-> Num(101), name |-> Str("Downtown")]),
          Dict([key |-> Num(205)]) >>)])) }

StopMain ==
    Dict(("key" :> Num(101)) @@ ("name" :> Str("Main")) @@ ("number" :> Num(101))
         @@ ("direction" :> Str("Northbound")) @@ ("side" :> Str("Nearside"))
         @@ ("street" :> Dict([key |-> Num(205), name |-> Str("Main Street")]))
         @@ ("cross-street" :> Dict([key |-> Num(101), name |-> Str("Portage")]))
         @@ ("centre" :> Dict([utm |-> Dict([zone |-> Str("14U"), x |-> Num(101),
                                             y |-> Num(205)]),
                               geographic |-> Dict([latitude |-> Str("49.9"),
                                                    longitude |-> Str("-97.1")])])))

StopBare ==
    Dict(("key" :> Num(205)) @@ ("name" :> Str("Osborne")) @@ ("number" :> Num(205))
         @@ ("centre" :> Dict([geographic |-> Dict([latitude |-> Str("49.8")])])))

StopResponses ==
    { RequestException,
      HttpResponse(500, None),
      HttpResponse(200, Dict([stops |-> EmptyList])),
      HttpResponse(200, Dict([stops |-> List(<<StopMain>>)])),
      HttpResponse(200, Dict([stops |-> List(<<StopMain, StopBare>>)])) }

ScheduledStopFull ==
    Dict(("key" :> Str("s1")) @@ ("cancelled" :> Str("false"))
         @@ ("times" :> Dict([arrival |-> Dict([scheduled |-> Str("12:05"),
                                                estimated |-> Str("12:06")]),
                              departure |-> Dict([scheduled |-> Str("12:05")])]))
         @@ ("variant" :> Dict([key |-> Str("1-0-A"), name |-> Str("Downtown")]))
         @@ ("bus" :> Dict(("key" :> Num(101)) @@ ("bike-rack" :> Str("true"))
                           @@ ("wifi" :> Str("false")))))

ScheduledStopBare == Dict([key |-> Str("s2")])

RouteSchedule(route, leaves) ==
    Dict(("route" :> route) @@ ("scheduled-stops" :> List(leaves)))

RouteOne == Dict([key |-> Num(101), name |-> Str("Route 1"), number |-> Str("1")])

RouteTwo == Dict([key |-> Num(205), name |-> Str("Route 2"), number |-> Str("2")])

StopSchedule(stop, route_schedules) ==
    Dict("stop-schedule" :>
            Dict(("stop" :> stop) @@ ("route-schedules" :> List(route_schedules))))

SchedulePayloads ==
    { StopSchedule(Dict([number |-> Num(101), name |-> Str("Main")]),
                   << RouteSchedule(RouteOne, <<ScheduledStopFull, ScheduledStopBare>>) >>),
      StopSchedule(Dict([number |-> Num(205), name |-> Str("Osborne")]),
                   << RouteSchedule(RouteOne, <<>>),
                      RouteSchedule(RouteTwo, <<ScheduledStopBare>>) >>) }

ScheduleResponses ==
    { RequestException, HttpResponse(404, None), HttpResponse(200, EmptyDict) }
    \cup {HttpResponse(200, p) : p \in SchedulePayloads}

CollectorInputs(which, Ids, Responses) ==
    UNION {[which : {which}, ids : [1..n -> Ids], responses : [1..n -> Responses]]
           : n \in 0..MaxIds}

InitCollect ==
    /\ now = [day |-> 1, sec |-> 0]
    /\ fs = EmptyFs
    /\ calls = <<>>
    /\ cin \in CollectorInputs("destinations", VariantKeys, DestinationResponses)
               \cup CollectorInputs("stops", VariantKeys, StopResponses)
               \cup CollectorInputs("stop_schedules", StopNumbers, ScheduleResponses)
    /\ cout = None
    /\ fin = None
    /\ fout = None
    /\ NoRun

CollectDestinations ==
    /\ cin.which = "destinations"
    /\ cout = None
    /\ cout' = fetch_destinations_for_variants(cin.ids, cin.responses, now)
    /\ UNCHANGED <<stagerVars, cin, flattenVars, pipeVars>>

CollectStops ==
    /\ cin.which = "stops"
    /\ cout = None
    /\ cout' = fetch_data_for_variants(cin.ids, cin.responses, now, "stops")
    /\ UNCHANGED <<stagerVars, cin, flattenVars, pipeVars>>

CollectSchedules ==
    /\ cin.which = "stop_schedules"
    /\ cout = None
    /\ cout' = fetch_stop_schedules_for_busstops(cin.ids, cin.responses, now)
    /\ UNCHANGED <<stagerVars, cin, flattenVars, pipeVars>>

NextCollect == CollectDestinations \/ CollectStops \/ CollectSchedules

SpecCollect == InitCollect /\ [][NextCollect]_vars

(***************************************************************************)
(* Stops payloads whose nested objects are absent, null, empty or filled   *)
(***************************************************************************)
NestedShapes == {"absent", "null", "empty", "full"}

\* the entries a stop object gets for one nested object
Nested(key, shape, full) ==
    CASE shape = "absent" -> [k \in {} |-> None]
      [] shape = "null" -> key :> None
      [] shape = "empty" -> key :> EmptyDict
      [] shape = "full" -> key :> Dict(full)

CentreShapes ==
    {[centre |-> "absent", utm |-> "absent", geographic |-> "absent"],
     [centre |-> "null", utm |-> "absent", geographic |-> "absent"]}
    \cup [centre : {"full"}, utm : NestedShapes, geographic : NestedShapes]

StopShapes == [street : NestedShapes, cross : NestedShapes, centre : CentreShapes]

StopOfShape(sh) ==
    Dict(("key" :> Num(101)) @@ ("name" :> Str("Main")) @@ ("number" :> Num(101))
         @@ ("direction" :> Str("Northbound")) @@ ("side" :> Str("Nearside"))
         @@ Nested("street", sh.street, [key |-> Num(205), name |-> Str("Main Street")])
         @@ Nested("cross-street", sh.cross,
                   [key |-> Num(101), name |-> Str("Portage"), leg |-> Str("East")])
         @@ (CASE sh.centre.centre = "absent" -> [k \in {} |-> None]
               [] sh.centre.centre = "null" -> "centre" :> None
               [] OTHER -> "centre" :> Dict(
                      Nested("utm", sh.centre.utm,
                             [zone |-> Str("14U"), x |-> Num(101), y |-> Num(205)])
                      @@ Nested("geographic", sh.centre.geographic,
                                [latitude |-> Str("49.8"), longitude |-> Str("-97.1")]))))

InitStops ==
    /\ now = [day |-> 1, sec |-> 0]
    /\ fs = EmptyFs
    /\ calls = <<>>
    /\ \E sh \in StopShapes, tail \in {<<>>, <<StopBare>>} :
          cin = [which |-> "stops", ids |-> <<Str("1-0-A")>>, shape |-> sh,
                 responses |-> << HttpResponse(200,
                     Dict([stops |-> List(<<StopOfShape(sh)>> \o tail)])) >>]
    /\ cout = None
    /\ fin = None
    /\ fout = None
    /\ NoRun

SpecStops == InitStops /\ [][CollectStops]_vars

(***************************************************************************)
(* The routes flattening of extract_routes: json_normalize, explode on     *)
(* 'variants', json_normalize of the exploded column, rename, drop and     *)
(* column-wise concat.  A frame carries its index labels next to its rows. *)
(***************************************************************************)
IndexedFrame(index, cols, rows) ==
    [t |-> "DataFrame", index |-> index, cols |-> cols, rows |-> rows]

\* one record of json_normalize: nested dicts become <key><sep><subkey> columns
normalize_record(d, sep) ==
    LET plain == {k \in DOMAIN d.f : d.f[k].t # "dict"}
        nested == {p \in UNION {{<<k, j>> : j \in DOMAIN d.f[k].f}
                                : k \in DOMAIN d.f \ plain} : TRUE}
        names == plain \cup {p[1] \o sep \o p[2] : p \in nested}
    IN  [c \in names |->
            IF c \in plain THEN d.f[c]
            ELSE LET p == CHOOSE q \in nested : q[1] \o sep \o q[2] = c
                 IN  d.f[p[1]].f[p[2]]]

json_normalize(records, sep) ==
    IF \E i \in DOMAIN records : records[i].t # "dict"
    THEN Raise("AttributeError")
    ELSE LET flat == [i \in DOMAIN records |-> normalize_record(records[i], sep)]
             cols == UNION {DOMAIN flat[i] : i \in DOMAIN flat}
         IN  IndexedFrame([i \in DOMAIN flat |-> i], cols,
                [i \in DOMAIN flat |->
                    [c \in cols |-> IF c \in DOMAIN flat[i] THEN flat[i][c] ELSE None]])

ExplodedCells(cell) ==
    IF cell.t = "list"
    THEN IF cell.items = <<>> THEN << None >> ELSE cell.items
    ELSE << cell >>

explode(df, column, ignore_index) ==
    LET pieces == [i \in DOMAIN df.rows |->
                    LET cells == ExplodedCells(df.rows[i][column])
                    IN  [k \in DOMAIN cells |->
                            [label |-> df.index[i],
                             row |-> [df.rows[i] EXCEPT ![column] = cells[k]]]]]
        all == Concat(pieces)
    IN  IndexedFrame([k \in DOMAIN all |-> IF ignore_index THEN k ELSE all[k].label],
                     df.cols, [k \in DOMAIN all |-> all[k].row])

column(df, name) == [i \in DOMAIN df.rows |-> df.rows[i][name]]

rename(df, old, new) ==
    LET Renamed(c) == IF c = old THEN new ELSE c
        Original(c) == IF c = new /\ old \in df.cols THEN old ELSE c
        cols == {Renamed(c) : c \in df.cols}
    IN  IndexedFrame(df.index, cols,
            [i \in DOMAIN df.rows |-> [c \in cols |-> df.rows[i][Original(c)]]])

drop(df, name) ==
    IndexedFrame(df.index, df.cols \ {name},
        [i \in DOMAIN df.rows |-> [c \in df.cols \ {name} |-> df.rows[i][c]]])

\* pd.concat([left, right], axis=1): rows are aligned on the index labels.
\* The frames met here carry either the same range index or, on one side,
\* repeated labels, which cannot be aligned.
concat_columns(left, right) ==
    IF left.index = right.index
    THEN IndexedFrame(left.index, left.cols \cup right.cols,
            [i \in DOMAIN left.rows |->
                [c \in left.cols \cup right.cols |->
                    IF c \in right.cols THEN right.rows[i][c] ELSE left.rows[i][c]]])
    ELSE Raise("InvalidIndexError")

flatten_routes(routes, clock) ==
    LET df == json_normalize(routes, "_")
    IN  IF df.t = "raise" THEN df
        ELSE IF "variants" \notin df.cols THEN Raise("KeyError")
        ELSE LET df_exploded == explode(df, "variants", TRUE)
                 df_normalized == json_normalize(column(df_exploded, "variants"), ".")
             IN  IF df_normalized.t = "raise" THEN df_normalized
                 ELSE LET renamed == rename(df_normalized, "key", "variant")
                          dropped == drop(df_exploded, "variants")
                          df_routes_today == concat_columns(dropped, renamed)
                      IN  IF df_routes_today.t = "raise" THEN df_routes_today
                          ELSE set_column(df_routes_today, "timestamp_fetched", Ts(clock))

(***************************************************************************)
(* Flattener runs over routes payloads and lists of stop-schedule payloads *)
(***************************************************************************)
VariantObjects == {Dict([key |-> v]) : v \in VariantKeys}

RouteHeads == { [key |-> Num(101), name |-> Str("Route 1"), colour |-> Str("#fff")],
                [key |-> Num(205), name |-> Str("Route 2"), colour |-> Str("#000")] }

RouteObject(head, variants) ==
    Dict(("key" :> head.key) @@ ("name" :> head.name)
         @@ ("badge-style" :> Dict([colour |-> head.colour]))
         @@ ("variants" :> List(variants)))

RouteObjects ==
    {RouteObject(h, vs) : h \in RouteHeads,
                          vs \in SeqsUpTo(VariantObjects, MaxVariants) \ {<<>>}}

RoutesPayloads == SeqsUpTo(RouteObjects, MaxRoutes)

FlattenSchedulePayloads ==
    SchedulePayloads
    \cup { EmptyDict,
           Dict("stop-schedule" :> Dict([stop |-> Dict([number |-> Num(101)])])) }

InitFlatten ==
    /\ now = [day |-> 1, sec |-> 0]
    /\ fs = EmptyFs
    /\ calls = <<>>
    /\ cin = None
    /\ cout = None
    /\ fin \in [shape : {"routes"}, payload : RoutesPayloads]
               \cup [shape : {"stop_schedules"},
                     payload : SeqsUpTo(FlattenSchedulePayloads, MaxSchedules)]
    /\ fout = None
    /\ NoRun

FlattenRoutes ==
    /\ fin.shape = "routes"
    /\ fout = None
    /\ fout' = flatten_routes(fin.payload, now)
    /\ UNCHANGED <<stagerVars, collectVars, fin, pipeVars>>

FlattenSchedules ==
    /\ fin.shape = "stop_schedules"
    /\ fout = None
    /\ fout' = flatten_schedule_data(fin.payload, now)
    /\ UNCHANGED <<stagerVars, collectVars, fin, pipeVars>>

NextFlatten == FlattenRoutes \/ FlattenSchedules

SpecFlatten == InitFlatten /\ [][NextFlatten]_vars

(***************************************************************************)
(* extract_routes: request, flattening, staging and XCom push.  Every      *)
(* exception is caught inside the function.                                *)
(***************************************************************************)
StepResult(filesystem, raised, pushes, save, got, events, stops_column, load) ==
    [fs |-> filesystem, raised |-> raised, pushes |-> pushes, save |-> save,
     get |-> got, events |-> events, stops_column |-> stops_column, load |-> load,
     ret |-> None, log |-> <<>>]

\* the value the callable returns
Returning(step, value) == [step EXCEPT !.ret = value]

\* the records the callable itself logs at level warning or above
Logging(step, levels) == [step EXCEPT !.log = levels]

SaveStatus(saved) == IF saved.ret = None THEN "failed" ELSE "ok"

Push(key, value) == [key |-> key, value |-> value]

\* extract_routes staging an empty routes table when the routes key is absent
extract_routes_stage_empty(response, clock, filesystem, fault) ==
    LET nothing == StepResult(filesystem, FALSE, <<>>, "not_called", "not_called",
                              <<>>, None, None)
    IN  IF response.kind = "RequestException" THEN Logging(nothing, <<"error">>)
        ELSE IF response.status_code # 200 THEN Logging(nothing, <<"error">>)
        \* a body that is not JSON: response.json() raises
        ELSE IF response.json.t # "dict" THEN Logging(nothing, <<"error">>)
        ELSE IF "routes" \notin DOMAIN response.json.f
        THEN LET saved == save_df_to_csv(DataFrame({"timestamp_fetched"}, <<>>),
                                        "routes", BaseDir, clock, filesystem, fault)
             IN  Logging(StepResult(saved.fs, FALSE, <<>>, SaveStatus(saved),
                                    "not_called", <<>>, None, None), <<"warning">>)
        ELSE LET df_routes_today ==
                    flatten_routes(response.json.f["routes"].items, clock)
             IN  IF df_routes_today.t = "raise" THEN Logging(nothing, <<"error">>)
                 ELSE LET saved == save_df_to_csv(df_routes_today, "routes", BaseDir,
                                                  clock, filesystem, fault)
                      IN  IF "variant" \notin df_routes_today.cols
                          THEN Logging(StepResult(saved.fs, FALSE, <<>>,
                                          SaveStatus(saved), "not_called", <<>>,
                                          None, None), <<"error">>)
                          ELSE StepResult(saved.fs, FALSE,
                                    << Push("variant_column",
                                            List(column(df_routes_today, "variant"))) >>,
                                    SaveStatus(saved), "not_called", <<>>, None, None)

extract_routes(response, clock, filesystem, fault) ==
    LET nothing == StepResult(filesystem, FALSE, <<>>, "not_called", "not_called",
                              <<>>, None, None)
    IN  IF response.kind = "RequestException" THEN Logging(nothing, <<"error">>)
        ELSE IF response.status_code # 200 THEN Logging(nothing, <<"error">>)
        \* a body that is not JSON: response.json() raises
        ELSE IF response.json.t # "dict" THEN Logging(nothing, <<"error">>)
        ELSE IF "routes" \notin DOMAIN response.json.f
        THEN Logging(nothing, <<"warning">>)
        ELSE LET df_routes_today ==
                    flatten_routes(response.json.f["routes"].items, clock)
             IN  IF df_routes_today.t = "raise" THEN Logging(nothing, <<"error">>)
                 ELSE LET saved == save_df_to_csv(df_routes_today, "routes", BaseDir,
                                                  clock, filesystem, fault)
                      IN  IF "variant" \notin df_routes_today.cols
                          THEN Logging(StepResult(saved.fs, FALSE, <<>>,
                                          SaveStatus(saved), "not_called", <<>>,
                                          None, None), <<"error">>)
                          ELSE StepResult(saved.fs, FALSE,
                                    << Push("variant_column",
                                            List(column(df_routes_today, "variant"))) >>,
                                    SaveStatus(saved), "not_called", <<>>, None, None)

(***************************************************************************)
(* The task callables of dags/ExtractLoad.py                               *)
(***************************************************************************)
xcom_pull(x, task_ids, key) ==
    IF <<task_ids, key>> \in DOMAIN x THEN x[<<task_ids, key>>] ELSE None

xcom_push(x, task_id, key, value) ==
    [k \in DOMAIN x \cup {<<task_id, key>>} |->
        IF k = <<task_id, key>> THEN value ELSE x[k]]

xcom_clear(x, task_id) == [k \in {q \in DOMAIN x : q[1] # task_id} |-> x[k]]

\* the early return of a task callable whose XCom pull gave None
Returned(filesystem) ==
    Logging(StepResult(filesystem, FALSE, <<>>, "not_called", "not_called", <<>>,
                       None, None), <<"error">>)

Raised(filesystem, events) ==
    StepResult(filesystem, TRUE, <<>>, "not_called", "not_called", events, None, None)

extraction_routes(response, clock, filesystem, fault) ==
    extract_routes(response, clock, filesystem, fault)

\* process_routes without the early return: iterating over None raises
process_routes_unguarded(variant_column, responses, clock, filesystem, fault) ==
    IF variant_column = None THEN Raised(filesystem, <<>>)
    ELSE LET out == fetch_destinations_for_variants(variant_column.items, responses, clock)
         IN  IF out.raised THEN Raised(filesystem, out.events)
             ELSE LET saved == save_df_to_csv(out.df, "destinations", BaseDir,
                                              clock, filesystem, fault)
                  IN  Returning(StepResult(saved.fs, FALSE, <<>>, SaveStatus(saved),
                                 "not_called", out.events, None, None), saved.ret)

process_routes(variant_column, responses, clock, filesystem, fault) ==
    IF variant_column = None THEN Returned(filesystem)
    ELSE LET out == fetch_destinations_for_variants(variant_column.items, responses, clock)
         IN  IF out.raised THEN Raised(filesystem, out.events)
             ELSE LET saved == save_df_to_csv(out.df, "destinations", BaseDir,
                                              clock, filesystem, fault)
                  IN  Returning(StepResult(saved.fs, FALSE, <<>>, SaveStatus(saved),
                                 "not_called", out.events, None, None), saved.ret)

\* list(set(values)): the distinct values, in any order
list_of_set(values) == Orderings(Range(values))

\* process_stops pushing the stop_number column as it is
process_stops_no_dedup(variant_column, responses, unique, clock, filesystem, fault) ==
    IF variant_column = None THEN Returned(filesystem)
    ELSE LET out == fetch_data_for_variants(variant_column.items, responses, clock, "stops")
         IN  IF out.raised THEN Raised(filesystem, out.events)
             ELSE IF "stop_number" \notin out.df.cols THEN Raised(filesystem, out.events)
             ELSE LET stops_list == column(out.df, "stop_number")
                      saved == save_df_to_csv(out.df, "stops", BaseDir,
                                              clock, filesystem, fault)
                  IN  Returning(StepResult(saved.fs, FALSE,
                                 << Push("stop_numbers", List(stops_list)) >>,
                                 SaveStatus(saved), "not_called", out.events,
                                 List(stops_list), None), saved.ret)

\* unique is what list(set(stops_list)) evaluated to
process_stops(variant_column, responses, unique, clock, filesystem, fault) ==
    IF variant_column = None THEN Returned(filesystem)
    ELSE LET out == fetch_data_for_variants(variant_column.items, responses, clock, "stops")
         IN  IF out.raised THEN Raised(filesystem, out.events)
             ELSE IF "stop_number" \notin out.df.cols THEN Raised(filesystem, out.events)
             ELSE LET stops_list == column(out.df, "stop_number")
                      saved == save_df_to_csv(out.df, "stops", BaseDir,
                                              clock, filesystem, fault)
                  IN  Returning(StepResult(saved.fs, FALSE,
                                 << Push("stop_numbers", List(unique)) >>,
                                 SaveStatus(saved), "not_called", out.events,
                                 List(stops_list), None), saved.ret)

\* the values of stops_df['stop_number'] that process_stops would see
stops_list_of(variant_column, responses, clock) ==
    IF variant_column = None THEN <<>>
    ELSE LET out == fetch_data_for_variants(variant_column.items, responses, clock, "stops")
         IN  IF out.raised \/ "stop_number" \notin out.df.cols THEN <<>>
             ELSE column(out.df, "stop_number")

process_stop_schedules(stop_numbers, responses, clock, filesystem, fault) ==
    IF stop_numbers = None THEN Returned(filesystem)
    ELSE LET out == fetch_stop_schedules_for_busstops(stop_numbers.items, responses, clock)
         IN  IF out.raised THEN Raised(filesystem, out.events)
             ELSE LET saved == save_df_to_csv(out.df, "stop_schedules", BaseDir,
                                              clock, filesystem, fault)
                  IN  Returning(StepResult(saved.fs, FALSE, <<>>, SaveStatus(saved),
                                 "not_called", out.events, None, None), saved.ret)

\* imported by dags/ExtractLoad.py from utils.ETL_functions; per the design
\* notes it fetches through the stops endpoint and shape, once per stop number
fetch_stop_features_for_busstops(stop_numbers, responses, clock) ==
    fetch_data_for_variants(stop_numbers, responses, clock, "stops")

process_stop_features(stop_numbers, responses, clock, filesystem, fault) ==
    IF stop_numbers = None THEN Returned(filesystem)
    ELSE LET out == fetch_stop_features_for_busstops(stop_numbers.items, responses, clock)
         IN  IF out.raised THEN Raised(filesystem, out.events)
             ELSE LET saved == save_df_to_csv(out.df, "stop_features", BaseDir,
                                              clock, filesystem, fault)
                  IN  Returning(StepResult(saved.fs, FALSE, <<>>, SaveStatus(saved),
                                 "not_called", out.events, None, None), saved.ret)

dataset_id == "winnipeg-transit-data-pipeline.Raw"

\* the hook and the warehouse accept every load they are handed
push_to_big_query(destination_table, dataset_name, clock, filesystem, listing) ==
    LET got == get_today_extracted_data(dataset_name, BaseDir, clock, filesystem, listing)
        found == IF got.ret = None THEN "not_found" ELSE "found"
        failed == StepResult(filesystem, TRUE, <<>>, "not_called", found, <<>>, None, None)
    IN  IF got.ret = None THEN failed
        ELSE StepResult(filesystem, FALSE, <<>>, "not_called", found, <<>>, None,
                        [table |-> dataset_id \o "." \o destination_table, df |-> got.ret])

(***************************************************************************)
(* One DAG run: the tasks of the chain, each tried at most 1 + Retries     *)
(* times, a task starting only after its upstream task succeeded.  The run *)
(* is followed at one reading of the clock: retry_delay only postpones a   *)
(* try, and no task of the chain stages a snapshot in more than one try.   *)
(***************************************************************************)
DatasetNames == {"routes", "destinations", "stops", "stop_schedules", "stop_features"}

PushTasks ==
    [push_routes_to_big_query_task |-> "routes",
     push_destinations_to_big_query_task |-> "destinations",
     push_stops_to_big_query_task |-> "stops",
     push_stop_schedules_to_big_query_task |-> "stop_schedules",
     push_stop_features_to_big_query_task |-> "stop_features"]

\* today's folders as get_today_extracted_data looks them up, each holding
\* one snapshot that was put there by other means than this run
EarlierSnapshot == DataFrame({"timestamp_fetched"}, <<>>)

RECURSIVE PlaceSnapshots(_, _, _)
PlaceSnapshots(names, clock, filesystem) ==
    IF names = {} THEN filesystem
    ELSE LET n == CHOOSE x \in names : TRUE
             dir == today_folder(n, BaseDir, clock)
         IN  PlaceSnapshots(names \ {n}, clock,
                 write_file(makedirs(filesystem, dir), dir,
                            FileName(n \o "_earlier", ".csv"), to_csv(EarlierSnapshot)))

RunRoutesResponses ==
    { RequestException,
      HttpResponse(500, None),
      HttpResponse(200, Dict([message |-> Str("no routes")])),
      HttpResponse(200, Dict([routes |-> EmptyList])),
      HttpResponse(200, Dict([routes |-> List(<<
          RouteObject([key |-> Num(101), name |-> Str("Route 1"), colour |-> Str("#fff")],
                      << Dict([key |-> Str("1-0-A")]), Dict([key |-> Str("1-1-B")]) >>) >>)])) }

RunDestinationResponses ==
    { HttpResponse(404, None),
      HttpResponse(200, Dict([destinations |-> List(<<
          Dict([key |-> Num(101), name |-> Str("Downtown")]) >>)])) }

RunStopResponses ==
    { HttpResponse(500, None),
      HttpResponse(200, Dict([stops |-> List(<<StopMain>>)])),
      HttpResponse(200, Dict([stops |-> List(<<StopMain, StopBare>>)])) }

RunScheduleResponses ==
    { HttpResponse(404, None),
      HttpResponse(200,
          StopSchedule(Dict([number |-> Num(101), name |-> Str("Main")]),
                       << RouteSchedule(RouteOne, <<ScheduledStopFull>>) >>)) }

RunFeatureResponses ==
    { HttpResponse(500, None),
      HttpResponse(200, Dict([stops |-> List(<<StopMain>>)])) }

RunWriteFaults == {"none", "to_csv"}

Init ==
    /\ now = [day |-> 1, sec |-> 0]
    /\ fs \in {EmptyFs, PlaceSnapshots(DatasetNames, [day |-> 1, sec |-> 0], EmptyFs)}
    /\ calls = <<>>
    /\ cin = None
    /\ cout = None
    /\ fin = None
    /\ fout = None
    /\ NoRun

Position(id) == CHOOSE i \in DOMAIN TaskOrder : TaskOrder[i] = id

\* every task free to start whatever its upstream task did
Runnable_unordered(id) ==
    /\ task[id].state \in {"none", "up_for_retry"}

Runnable(id) ==
    /\ task[id].state \in {"none", "up_for_retry"}
    /\ Position(id) > 1 => task[TaskOrder[Position(id) - 1]].state = "success"

StateAfter(id, step) ==
    IF ~step.raised THEN "success"
    ELSE IF task[id].tries < Retries THEN "up_for_retry"
    ELSE "failed"

RECURSIVE PushAll(_, _, _)
PushAll(x, id, pushes) ==
    IF pushes = <<>> THEN x
    ELSE PushAll(xcom_push(x, id, Head(pushes).key, Head(pushes).value), id, Tail(pushes))

Finish(id, step) ==
    /\ task' = [task EXCEPT ![id] = [state |-> StateAfter(id, step),
                                     tries |-> @.tries + 1]]
    /\ xcom' = PushAll(xcom_clear(xcom, id), id, step.pushes)
    /\ fs' = step.fs
    /\ ran' = [ran EXCEPT ![id] = [raised |-> step.raised, save |-> step.save,
                                   get |-> step.get, events |-> step.events,
                                   stops_column |-> step.stops_column,
                                   ret |-> step.ret, log |-> step.log]]
    /\ warehouse' = IF step.load = None THEN warehouse
                    ELSE [t \in DOMAIN warehouse \cup {step.load.table} |->
                            IF t = step.load.table THEN step.load.df ELSE warehouse[t]]
    /\ UNCHANGED <<now, calls, collectVars, flattenVars>>

Pulled(task_ids, key) == xcom_pull(xcom, task_ids, key)

Count(value) == IF value = None THEN 0 ELSE Len(value.items)

ExtractionRoutes ==
    /\ Runnable("api_data_extraction_task")
    /\ \E response \in RunRoutesResponses, fault \in RunWriteFaults :
          Finish("api_data_extraction_task",
                 extraction_routes(response, now, fs, fault))

ProcessRoutes ==
    /\ Runnable("process_destinations_task")
    /\ LET variant_column == Pulled("api_data_extraction_task", "variant_column")
       IN  \E responses \in [1..Count(variant_column) -> RunDestinationResponses],
              fault \in RunWriteFaults :
              Finish("process_destinations_task",
                     process_routes(variant_column, responses, now, fs, fault))

ProcessStops ==
    /\ Runnable("process_stops_task")
    /\ LET variant_column == Pulled("api_data_extraction_task", "variant_column")
       IN  \E responses \in [1..Count(variant_column) -> RunStopResponses],
              fault \in RunWriteFaults :
              \E unique \in list_of_set(stops_list_of(variant_column, responses, now)) :
                 Finish("process_stops_task",
                        process_stops(variant_column, responses, unique, now, fs, fault))

ProcessStopSchedules ==
    /\ Runnable("process_stop_schedules_task")
    /\ LET stop_numbers == Pulled("process_stops_task", "stop_numbers")
       IN  \E responses \in [1..Count(stop_numbers) -> RunScheduleResponses],
              fault \in RunWriteFaults :
              Finish("process_stop_schedules_task",
                     process_stop_schedules(stop_numbers, responses, now, fs, fault))

ProcessStopFeatures ==
    /\ Runnable("process_stop_features_task")
    /\ LET stop_numbers == Pulled("process_stops_task", "stop_numbers")
       IN  \E responses \in [1..Count(stop_numbers) -> RunFeatureResponses],
              fault \in RunWriteFaults :
              Finish("process_stop_features_task",
                     process_stop_features(stop_numbers, responses, now, fs, fault))

PushToBigQuery ==
    \E id \in DOMAIN PushTasks :
       /\ Runnable(id)
       /\ LET folder == today_folder(PushTasks[id], BaseDir, now)
          IN  \E listing \in Orderings(listdir(fs, folder)) :
                 Finish(id, push_to_big_query(PushTasks[id], PushTasks[id], now, fs,
                                              listing))

Next ==
    \/ ExtractionRoutes
    \/ ProcessRoutes
    \/ ProcessStops
    \/ ProcessStopSchedules
    \/ ProcessStopFeatures
    \/ PushToBigQuery

Spec == Init /\ [][Next]_vars

(***************************************************************************)
(* extract_routes applied to two responses from the same state, so that    *)
(* what its caller gets for one response can be held against what it gets  *)
(* for another                                                             *)
(***************************************************************************)
RouteNoKeyVariants ==
    RouteObject([key |-> Num(205), name |-> Str("Route 2"), colour |-> Str("#000")],
                << Dict([name |-> Str("unnamed")]) >>)

RoutesFetchResponses ==
    RunRoutesResponses
    \cup { HttpResponse(404, Dict([message |-> Str("not found")])),
           HttpResponse(200, None),
           HttpResponse(200, EmptyDict),
           HttpResponse(200, Dict([routes |-> List(<<RouteNoKeyVariants>>)])) }

InitRoutesFetch ==
    /\ now = [day |-> 1, sec |-> 0]
    /\ fs \in {EmptyFs, PlaceSnapshots(DatasetNames, [day |-> 1, sec |-> 0], EmptyFs)}
    /\ calls = <<>>
    /\ cin \in [which : {"routes"}, responses : [1..2 -> RoutesFetchResponses],
                fault : WriteFaults]
    /\ cout = None
    /\ fin = None
    /\ fout = None
    /\ NoRun

FetchRoutes ==
    /\ cin.which = "routes"
    /\ cout = None
    /\ cout' = [i \in 1..2 |-> extract_routes(cin.responses[i], now, fs, cin.fault)]
    /\ UNCHANGED <<stagerVars, cin, flattenVars, pipeVars>>

SpecRoutesFetch == InitRoutesFetch /\ [][FetchRoutes]_vars

(***************************************************************************)
(* Properties of the stager                                                *)
(***************************************************************************)
SaveOk(c) == c.op = "save" /\ c.ret # None

\* C1: a successful save_df_to_csv(t, d, base_dir) followed on the same
\* calendar day by get_today_extracted_data(d, base_dir) resolves the
\* partition directory the save wrote to and returns the rows of t, not None.
C1_RoundTrip ==
    \A i \in 1..(Len(calls) - 1) :
        LET s == calls[i]
            g == calls[i + 1]
        IN  (/\ SaveOk(s)
             /\ g.op = "get"
             /\ g.dataset_name = s.dataset_name
             /\ g.at.day = s.at.day)
            => /\ g.dir = s.dir
               /\ g.ret # None
               /\ g.ret.cols = s.df.cols
               /\ Len(g.ret.rows) = Len(s.df.rows)

\* C5: get_today_extracted_data on a partition that does not exist, or that
\* holds no CSV file, returns None (an outcome that is not a table), never
\* an empty table.
C5_NotFoundIsNone ==
    \A i \in 1..Len(calls) :
        (calls[i].op = "get" /\ (~calls[i].had_dir \/ calls[i].csv_count = 0))
            => (calls[i].ret = None /\ calls[i].ret.t # "DataFrame")

\* C5 witness: a retrieve met an existing partition without any CSV file.
C5_Witness ==
    \E i \in 1..Len(calls) :
        /\ calls[i].op = "get"
        /\ calls[i].had_dir
        /\ calls[i].csv_count = 0
        /\ calls[i].ret = None

SameDaySaves(i, j) ==
    /\ i < j
    /\ SaveOk(calls[i])
    /\ SaveOk(calls[j])
    /\ calls[i].dataset_name = calls[j].dataset_name
    /\ calls[i].at.day = calls[j].at.day

TwoSnapshots(i, j) ==
    /\ calls[i].dir = calls[j].dir
    /\ calls[i].file # calls[j].file
    /\ <<calls[i].dir, calls[i].file>> \in DOMAIN fs.files
    /\ <<calls[j].dir, calls[j].file>> \in DOMAIN fs.files

\* C7 as stated: two successful saves of one dataset on one day leave two
\* distinct snapshot files in the same partition, whatever the call times.
C7_AnyCallTimes ==
    \A i, j \in 1..Len(calls) : SameDaySaves(i, j) => TwoSnapshots(i, j)

\* C7 amended: two successful saves of one dataset on one day whose call
\* times fall in different clock seconds leave two distinct snapshot files
\* in the same partition.
C7_DifferentSeconds ==
    \A i, j \in 1..Len(calls) :
        (SameDaySaves(i, j) /\ calls[i].at.sec # calls[j].at.sec)
            => TwoSnapshots(i, j)

\* C7 witness: two successful same-day saves in different seconds.
C7_Witness ==
    \E i, j \in 1..Len(calls) :
        /\ SameDaySaves(i, j)
        /\ calls[i].at.sec # calls[j].at.sec
        /\ TwoSnapshots(i, j)

(***************************************************************************)
(* Properties of the collectors                                            *)
(***************************************************************************)
Succeeds(response) == response.kind = "response" /\ response.status_code = 200

Sum(f) ==
    LET RECURSIVE S(_)
        S(i) == IF i = 0 THEN 0 ELSE S(i - 1) + f[i]
    IN S(Len(f))

ListLen(d, k) == IF d.t = "dict" /\ k \in DOMAIN d.f THEN Len(d.f[k].items) ELSE 0

\* the number of leaf entries the answer to one request carries
ItemCount(which, response) ==
    IF ~Succeeds(response) THEN 0
    ELSE CASE which = "destinations" -> ListLen(response.json, "destinations")
           [] which = "stops" -> ListLen(response.json, "stops")
           [] which = "stop_schedules" ->
                IF "stop-schedule" \in DOMAIN response.json.f
                THEN LET rs == response.json.f["stop-schedule"].f["route-schedules"].items
                     IN  Sum([r \in DOMAIN rs |-> Len(rs[r].f["scheduled-stops"].items)])
                ELSE 0

\* the id an answer's rows are attributed to
RowOwner(which, i) ==
    IF which = "stop_schedules"
    THEN IF Succeeds(cin.responses[i]) /\ "stop-schedule" \in DOMAIN cin.responses[i].json.f
         THEN cin.responses[i].json.f["stop-schedule"].f["stop"].f["number"]
         ELSE None
    ELSE cin.ids[i]

OwnerColumn(which) == IF which = "stop_schedules" THEN "stop_number" ELSE "variant_key"

RequestedIds(events) ==
    LET IsRequest(e) == e.e = "request"
        reqs == SelectSeq(events, IsRequest)
    IN  [i \in DOMAIN reqs |-> reqs[i].id]

CountRows(rows, col, value) == Cardinality({i \in DOMAIN rows : rows[i][col] = value})

SleepBetween(events, p, q) ==
    Sum([k \in 1..(q - p - 1) |->
            IF events[p + k].e = "sleep" THEN events[p + k].tenths ELSE 0])

TotalSleep(events) ==
    Sum([k \in DOMAIN events |-> IF events[k].e = "sleep" THEN events[k].tenths ELSE 0])

\* C3: between any two consecutive upstream requests of a collector run the
\* collector pauses at least 0.6 s, whatever the earlier request returned;
\* a run over N ids pauses at least 0.6 * (N - 1) s in total.
C3_Pacing ==
    cout # None
    => /\ \A p, q \in DOMAIN cout.events :
            (/\ p < q
             /\ cout.events[p].e = "request"
             /\ cout.events[q].e = "request")
            => SleepBetween(cout.events, p, q) >= SleepTenths
       /\ ~cout.raised => TotalSleep(cout.events) >= SleepTenths * (Len(cin.ids) - 1)

\* C3 witness: a run whose first request failed and whose second returned an
\* empty payload, each followed by a further request.
C3_Witness ==
    /\ cout # None
    /\ Len(cin.ids) = 3
    /\ ~Succeeds(cin.responses[1])
    /\ Succeeds(cin.responses[2]) /\ ItemCount(cin.which, cin.responses[2]) = 0
    /\ Len(RequestedIds(cout.events)) = 3
    /\ TotalSleep(cout.events) >= 2 * SleepTenths

DestinationColumns == {"variant_key", "destination_name", "destination_id", "timestamp_fetched"}

StopColumns ==
    {"variant_key", "stop_id", "stop_name", "stop_number", "direction", "side",
     "street_key", "street_name", "cross_street_key", "cross_street_name",
     "cross_street_leg", "centre_utm_zone", "centre_utm_x", "centre_utm_y",
     "latitude", "longitude", "timestamp_fetched"}

ScheduleColumns ==
    {"stop_number", "stop_name", "route_key", "route_name", "route_number",
     "scheduled_stop_key", "cancelled", "arrival_scheduled", "arrival_estimated",
     "departure_scheduled", "departure_estimated", "variant_key", "variant_name",
     "bus_key", "bus_bike_rack", "bus_wifi", "timestamp_fetched"}

ExpectedColumns(which) ==
    CASE which = "destinations" -> DestinationColumns
      [] which = "stops" -> StopColumns
      [] which = "stop_schedules" -> ScheduleColumns

\* C8: a collector run in which every id contributes zero rows returns a
\* zero-row table that has the dataset's full column set.
C8_EmptyRunKeepsColumns ==
    (/\ cout # None
     /\ \A i \in DOMAIN cin.ids : ItemCount(cin.which, cin.responses[i]) = 0)
    => /\ ~cout.raised
       /\ cout.df.rows = <<>>
       /\ cout.df.cols = ExpectedColumns(cin.which)

(***************************************************************************)
(* Properties of the flatteners                                            *)
(***************************************************************************)
Field(d, k) == IF d.t = "dict" /\ k \in DOMAIN d.f THEN d.f[k] ELSE None

Items(d, k) == IF d.t = "dict" /\ k \in DOMAIN d.f THEN d.f[k].items ELSE <<>>

\* what the rows of a routes payload must show, route after route
ExpectedRouteRows(routes) ==
    Concat([i \in DOMAIN routes |->
        [j \in DOMAIN routes[i].f["variants"].items |->
            [key |-> routes[i].f["key"],
             name |-> routes[i].f["name"],
             colour |-> routes[i].f["badge-style"].f["colour"],
             variant |-> routes[i].f["variants"].items[j].f["key"]]]])

ShownRouteRows(df) ==
    [k \in DOMAIN df.rows |->
        [key |-> df.rows[k]["key"],
         name |-> df.rows[k]["name"],
         colour |-> df.rows[k]["badge-style_colour"],
         variant |-> df.rows[k]["variant"]]]

RoutesFlattened ==
    /\ fout.t = "DataFrame"
    /\ Len(fout.rows) =
        Sum([i \in DOMAIN fin.payload |-> Len(fin.payload[i].f["variants"].items)])
    /\ {"key", "name", "badge-style_colour", "variant"} \subseteq fout.cols
    /\ ShownRouteRows(fout) = ExpectedRouteRows(fin.payload)

\* C9: for every routes payload of R routes, each with at least one variant,
\* the flattening yields exactly sum(V_i) rows, each carrying its route's
\* fields and its variant's key in the column 'variant'.
C9_RouteVariantRows ==
    (fin # None /\ fin.shape = "routes" /\ fout # None) => RoutesFlattened

\* C9 restricted to payloads that hold at least one route.
C9_NonEmptyPayload ==
    (fin # None /\ fin.shape = "routes" /\ fout # None /\ fin.payload # <<>>)
        => RoutesFlattened

\* what the rows of a list of stop-schedule payloads must show, leaf by leaf
ExpectedLeafRows(schedules) ==
    Concat([i \in DOMAIN schedules |->
        LET ss == Field(schedules[i], "stop-schedule")
            rs == Items(ss, "route-schedules")
        IN  Concat([r \in DOMAIN rs |->
                [k \in DOMAIN Items(rs[r], "scheduled-stops") |->
                    [stop_number |-> Field(Field(ss, "stop"), "number"),
                     stop_name |-> Field(Field(ss, "stop"), "name"),
                     route_key |-> Field(Field(rs[r], "route"), "key"),
                     route_name |-> Field(Field(rs[r], "route"), "name"),
                     route_number |-> Field(Field(rs[r], "route"), "number"),
                     scheduled_stop_key |->
                        Field(Items(rs[r], "scheduled-stops")[k], "key")]]])])

ShownLeafRows(df) ==
    [k \in DOMAIN df.rows |->
        [stop_number |-> df.rows[k]["stop_number"],
         stop_name |-> df.rows[k]["stop_name"],
         route_key |-> df.rows[k]["route_key"],
         route_name |-> df.rows[k]["route_name"],
         route_number |-> df.rows[k]["route_number"],
         scheduled_stop_key |-> df.rows[k]["scheduled_stop_key"]]]

\* C10: flatten_schedule_data yields exactly one row per leaf scheduled-stop
\* of its payloads, each row carrying the stop number and name of its
\* stop-schedule and the key, name and number of its route-schedule.
C10_LeafRows ==
    (fin # None /\ fin.shape = "stop_schedules" /\ fout # None)
    => /\ fout.t = "DataFrame"
       /\ Len(fout.rows) = Len(ExpectedLeafRows(fin.payload))
       /\ ShownLeafRows(fout) = ExpectedLeafRows(fin.payload)

\* C10 witness: a payload with a route-schedule of two scheduled-stops gave
\* two rows with the same stop number and name.
C10_Witness ==
    /\ fin # None /\ fin.shape = "stop_schedules" /\ fout # None
    /\ \E i \in DOMAIN fin.payload :
        \E r \in DOMAIN Items(Field(fin.payload[i], "stop-schedule"), "route-schedules") :
            Len(Items(Items(Field(fin.payload[i], "stop-schedule"),
                            "route-schedules")[r], "scheduled-stops")) = 2
    /\ fout.t = "DataFrame"
    /\ \E a, b \in DOMAIN fout.rows :
        /\ a # b
        /\ fout.rows[a]["stop_number"] = fout.rows[b]["stop_number"]
        /\ fout.rows[a]["stop_name"] = fout.rows[b]["stop_name"]
        /\ fout.rows[a]["scheduled_stop_key"] # fout.rows[b]["scheduled_stop_key"]

(***************************************************************************)
(* Properties of a DAG run                                                 *)
(***************************************************************************)
Distinct(list) == Cardinality(Range(list)) = Len(list)

StopsDone ==
    /\ ran["process_stops_task"] # None
    /\ ~ran["process_stops_task"].raised
    /\ ran["process_stops_task"].stops_column # None

SchedulesDone ==
    /\ ran["process_stop_schedules_task"] # None
    /\ Pulled("process_stops_task", "stop_numbers") # None

C6_StagerFailureFailsStep ==
    \A id \in TaskIds :
        (ran[id] # None /\ (ran[id].save = "failed" \/ ran[id].get = "not_found"))
        => task[id].state # "success"

(***************************************************************************)
(* Properties of the stops flattening                                      *)
(***************************************************************************)
StopsOf(response) == response.json.f["stops"].items

NestedColumns ==
    [street |-> {"street_key", "street_name"},
     cross |-> {"cross_street_key", "cross_street_name", "cross_street_leg"},
     utm |-> {"centre_utm_zone", "centre_utm_x", "centre_utm_y"},
     geographic |-> {"latitude", "longitude"}]

Missing(shape) == shape \in {"absent", "null", "empty"}

\* the columns of the first row that must read null for a stop of shape sh
NullColumns(sh) ==
    (IF Missing(sh.street) THEN NestedColumns.street ELSE {})
    \cup (IF Missing(sh.cross) THEN NestedColumns.cross ELSE {})
    \cup (IF Missing(sh.centre.centre) \/ Missing(sh.centre.utm)
          THEN NestedColumns.utm ELSE {})
    \cup (IF Missing(sh.centre.centre) \/ Missing(sh.centre.geographic)
          THEN NestedColumns.geographic ELSE {})

StopsFlattened ==
    /\ ~cout.raised
    /\ cout.df.cols = StopColumns
    /\ Len(cout.df.rows) = Len(StopsOf(cin.responses[1]))
    /\ \A i \in DOMAIN cout.df.rows : DOMAIN cout.df.rows[i] = StopColumns
    /\ \A c \in StopColumns \ {"variant_key", "timestamp_fetched"} :
          cout.df.rows[1][c] = None <=> c \in NullColumns(cin.shape)

HasNull(sh) ==
    "null" \in {sh.street, sh.cross, sh.centre.centre, sh.centre.utm, sh.centre.geographic}

\* C11: every stop of a stops payload yields exactly one row that has all
\* nested-field columns; a street, cross-street, centre, centre.utm or
\* centre.geographic that is absent, null or without its sub-fields gives
\* null in its columns, and the flattening neither raises nor drops a row.
C11_NestedNullsDegrade ==
    (cout # None /\ "shape" \in DOMAIN cin) => StopsFlattened

\* the same for stops none of whose nested objects is present with a null value
C11_AbsentOrEmpty ==
    (cout # None /\ "shape" \in DOMAIN cin /\ ~HasNull(cin.shape)) => StopsFlattened

(***************************************************************************)
(* Properties of the routes fetch                                          *)
(***************************************************************************)
RoutesFetched == cout # None /\ "which" \in DOMAIN cin /\ cin.which = "routes"

IsError(response) ==
    \/ response.kind = "RequestException"
    \/ response.kind = "response" /\ response.status_code # 200

LacksRoutes(response) ==
    /\ response.kind = "response"
    /\ response.status_code = 200
    /\ response.json.t = "dict"
    /\ "routes" \notin DOMAIN response.json.f

HasRoutes(response) ==
    /\ response.kind = "response"
    /\ response.status_code = 200
    /\ response.json.t = "dict"
    /\ "routes" \in DOMAIN response.json.f

\* C12: a 200 response without the routes key is reported as a warning
\* without raising, and what the caller gets for it differs from what the
\* caller gets for a non-200 response or a transport failure.
C12_EmptyResultDistinct ==
    RoutesFetched =>
        \A i \in 1..2 :
            LacksRoutes(cin.responses[i]) =>
                /\ ~cout[i].raised
                /\ cout[i].log = <<"warning">>
                /\ \A j \in 1..2 : IsError(cin.responses[j]) => cout[i].ret # cout[j].ret

\* a 200 response without the routes key logs a warning and does not raise
C12_WarningNoRaise ==
    RoutesFetched =>
        \A i \in 1..2 :
            LacksRoutes(cin.responses[i]) =>
                ~cout[i].raised /\ cout[i].log = <<"warning">>

\* the response did not lead to a flattened routes table
NonSuccess(response) ==
    \/ IsError(response)
    \/ response.kind = "response" /\ response.status_code = 200
          /\ response.json.t # "dict"
    \/ LacksRoutes(response)
    \/ HasRoutes(response) /\ response.json.f["routes"].items = <<>>

\* C16: on every non-success path (non-200, 200 without routes, transport
\* failure, or a failure before the flattening completes) extract_routes
\* does not raise, leaves the staging tree as it was and pushes nothing; it
\* pushes a variant list only for a 200 response with routes that was
\* flattened and whose staging was attempted.
C16_NonSuccessNoEffect ==
    RoutesFetched =>
        \A i \in 1..2 :
            /\ ~cout[i].raised
            /\ NonSuccess(cin.responses[i]) =>
                  /\ cout[i].fs = fs
                  /\ cout[i].save = "not_called"
                  /\ cout[i].pushes = <<>>
            /\ cout[i].pushes # <<>> =>
                  /\ HasRoutes(cin.responses[i])
                  /\ ~NonSuccess(cin.responses[i])
                  /\ cout[i].save \in {"ok", "failed"}
                  /\ Len(cout[i].pushes) = 1
                  /\ cout[i].pushes[1].key = "variant_column"

\* C16 witness: a body without the routes key left the tree alone and pushed
\* nothing, while a body with routes pushed its variants although the
\* staging it attempted failed.
C16_Witness ==
    /\ RoutesFetched
    /\ LacksRoutes(cin.responses[1])
    /\ cout[1].fs = fs /\ cout[1].pushes = <<>>
    /\ HasRoutes(cin.responses[2])
    /\ cout[2].save = "failed"
    /\ cout[2].pushes # <<>>
    /\ Len(cout[2].pushes[1].value.items) = 2

(***************************************************************************)
(* Stage calls for different datasets                                      *)
(***************************************************************************)
DifferentDatasetSaves(i, j) ==
    /\ i # j
    /\ SaveOk(calls[i])
    /\ SaveOk(calls[j])
    /\ calls[i].dataset_name # calls[j].dataset_name
    /\ calls[i].at.day = calls[j].at.day

\* the last successful save that wrote the file call i wrote
LastWriter(i) ==
    CHOOSE k \in i..Len(calls) :
        /\ SaveOk(calls[k])
        /\ calls[k].dir = calls[i].dir /\ calls[k].file = calls[i].file
        /\ \A m \in (k + 1)..Len(calls) :
              ~(SaveOk(calls[m]) /\ calls[m].dir = calls[i].dir
                                 /\ calls[m].file = calls[i].file)

Kept(i) ==
    /\ calls[i].dir \in fs.dirs
    /\ <<calls[i].dir, calls[i].file>> \in DOMAIN fs.files
    /\ fs.files[<<calls[i].dir, calls[i].file>>] = to_csv(calls[LastWriter(i)].df)
    /\ calls[LastWriter(i)].dataset_name = calls[i].dataset_name

LinearOrder ==
    << "api_data_extraction_task", "push_routes_to_big_query_task",
       "process_destinations_task", "push_destinations_to_big_query_task",
       "process_stops_task", "push_stops_to_big_query_task",
       "process_stop_schedules_task", "push_stop_schedules_to_big_query_task",
       "process_stop_features_task", "push_stop_features_to_big_query_task" >>

Started(id) == task[id].tries > 0

\* C14: the tasks of a run start in the order routes-extract, routes-load,
\* destinations-extract, destinations-load, stops-extract, stops-load,
\* schedules-extract, schedules-load, features-extract, features-load, each
\* only after the one before it succeeded; the schedule fetch has started
\* only if the stops extraction succeeded, and it requests only stop
\* numbers the stops extraction pushed.
C14_LinearOrder ==
    /\ \A i \in 2..Len(LinearOrder) :
          Started(LinearOrder[i]) => task[LinearOrder[i - 1]].state = "success"
    /\ Started("process_stop_schedules_task") =>
          /\ task["process_stops_task"].state = "success"
          /\ LET pushed == Pulled("process_stops_task", "stop_numbers")
                 requested == RequestedIds(ran["process_stop_schedules_task"].events)
             IN  IF pushed = None THEN requested = <<>>
                 ELSE Range(requested) \subseteq Range(pushed.items)

\* C14 witness: all ten tasks succeeded and the schedule fetch requested the
\* two stop numbers the stops extraction pushed.
C14_Witness ==
    /\ \A id \in TaskIds : task[id].state = "success"
    /\ Pulled("process_stops_task", "stop_numbers") # None
    /\ Len(RequestedIds(ran["process_stop_schedules_task"].events)) = 2

(***************************************************************************)
(* Selection among several snapshots                                       *)
(***************************************************************************)
SameFolderGets(i, j) ==
    /\ i < j
    /\ calls[i].op = "get" /\ calls[j].op = "get"
    /\ calls[i].dataset_name = calls[j].dataset_name
    /\ calls[i].at.day = calls[j].at.day

\* C15: two get_today_extracted_data calls for one dataset on unchanged
\* directory contents select the same file and return the same table, also
\* when the partition holds more than one snapshot and whatever order the
\* filesystem lists the entries in.
C15_SameFileSelected ==
    \A i, j \in 1..Len(calls) :
        SameFolderGets(i, j) =>
            calls[i].file = calls[j].file /\ calls[i].ret = calls[j].ret

\* the same for a partition that holds exactly one snapshot
C15_SingleSnapshot ==
    \A i, j \in 1..Len(calls) :
        (SameFolderGets(i, j) /\ calls[i].csv_count = 1) =>
            calls[i].file = calls[j].file /\ calls[i].ret = calls[j].ret

(***************************************************************************)
(* Task callables whose upstream identifier list is absent                 *)
(***************************************************************************)
UpstreamList ==
    [process_destinations_task |-> <<"api_data_extraction_task", "variant_column">>,
     process_stops_task |-> <<"api_data_extraction_task", "variant_column">>,
     process_stop_schedules_task |-> <<"process_stops_task", "stop_numbers">>]

Tried(id) == task'[id].tries = task[id].tries + 1

\* C17: when the list it pulls is absent, a try of process_routes,
\* process_stops or process_stop_schedules issues no upstream request,
\* leaves the staging tree and the XCom store as they were, does not raise,
\* and the task ends in state success.
C17_AbsentListNoEffect ==
    [][\A id \in DOMAIN UpstreamList :
          (Tried(id) /\ Pulled(UpstreamList[id][1], UpstreamList[id][2]) = None)
          => /\ ran'[id].events = <<>>
             /\ ran'[id].save = "not_called"
             /\ fs' = fs
             /\ xcom' = xcom
             /\ ~ran'[id].raised
             /\ ran'[id].ret = None
             /\ task'[id].state = "success"]_vars

\* C17 witness: the run went through all three callables with nothing in
\* the XCom store; each returned early, no request was made, no folder or
\* file was added to the staging tree that the run started from.
C17_Witness ==
    /\ DOMAIN xcom = {}
    /\ \A id \in DOMAIN UpstreamList :
          /\ task[id].state = "success"
          /\ ran[id] # None
          /\ ran[id].events = <<>>
          /\ ran[id].save = "not_called"
          /\ ran[id].log = <<"error">>
    /\ fs = PlaceSnapshots(DatasetNames, [day |-> 1, sec |-> 0], EmptyFs)

====
